---- MODULE Spec2Model ----
(***************************************************************************)
(* CodeAnalysisWorkflow (src/src/workflows/code_analysis_workflow.py): an  *)
(* event-driven workflow of @step handlers.  Each step has a queue; an     *)
(* event sent with ctx.send_event (or returned by a step) is delivered to  *)
(* every step whose signature accepts its type.  A handler runs until it   *)
(* reaches an await; at an await the event loop may run another handler.   *)
(* The run ends with the first StopEvent handled, or with the first        *)
(* exception that leaves a step.                                           *)
(*                                                                         *)
(* Text (LLM responses, code, field values) is a sequence of tokens; the   *)
(* parsing functions are computed on the tokens the way the code computes  *)
(* them on characters.                                                     *)
(***************************************************************************)
EXTENDS Integers, Sequences, FiniteSets, Bags, TLC

\* ------------------------------------------------------------------ bounds

\* Completion events sent into the run from outside the steps (duplicates,
\* late or foreign events): how many the environment may inject.
MaxStray == 1

\* ------------------------------------------------------------------- text

Tok(k, p) == [k |-> k, p |-> p]
Lit(s) == << Tok("txt", s) >>

\* Python None / a key that a JSON object does not have / JSON booleans.
NullV == << Tok("null", "") >>
AbsentV == << Tok("absent", "") >>
TrueV == << Tok("bool", "true") >>
FalseV == << Tok("bool", "false") >>

\* A value that pydantic accepts for a field declared str.
IsStr(v) == \A i \in 1..Len(v) : v[i].k \notin {"null", "absent", "bool"}
IsBool(v) == v \in {TrueV, FalseV}

\* Tokens that contain the character '{' / '}'.
HasLBrace(t) == t.k \in {"json", "badjson", "lbrace"}
HasRBrace(t) == t.k \in {"json", "badjson"}

\* str.find('{') and str.rfind('}'): 0-based position, -1 when absent.
Find(s) ==
    IF \E i \in 1..Len(s) : HasLBrace(s[i])
    THEN (CHOOSE i \in 1..Len(s) :
            HasLBrace(s[i]) /\ \A j \in 1..(i - 1) : ~HasLBrace(s[j])) - 1
    ELSE -1

RFind(s) ==
    IF \E i \in 1..Len(s) : HasRBrace(s[i])
    THEN (CHOOSE i \in 1..Len(s) :
            HasRBrace(s[i]) /\ \A j \in (i + 1)..Len(s) : ~HasRBrace(s[j])) - 1
    ELSE -1

\* s[a:b] for 0 <= a (Python slice, b exclusive).
Slice(s, a, b) == IF a < b THEN SubSeq(s, a + 1, b) ELSE << >>

IsWs(t) == t.k = "ws"

RECURSIVE LStrip(_)
LStrip(s) == IF s # << >> /\ IsWs(Head(s)) THEN LStrip(Tail(s)) ELSE s

RECURSIVE RStrip(_)
RStrip(s) ==
    IF s # << >> /\ IsWs(s[Len(s)]) THEN RStrip(SubSeq(s, 1, Len(s) - 1)) ELSE s

\* A faulty variant of Strip: whitespace is kept.
Strip_Keep(s) == s

\* str.strip()
Strip(s) == RStrip(LStrip(s))

\* ------------------------------------------------------------------- JSON

Keys == {"code", "issue", "reason", "fixed_code", "feedback",
         "analysis_depth", "invoke_doc_agent", "invoke_security_agent",
         "reasoning"}

EmptyObj == [key \in Keys |-> AbsentV]

DecisionObj(doc, sec) ==
    [EmptyObj EXCEPT !["analysis_depth"] = Lit("deep"),
                     !["invoke_doc_agent"] = IF doc THEN TrueV ELSE FalseV,
                     !["invoke_security_agent"] = IF sec THEN TrueV ELSE FalseV,
                     !["reasoning"] = Lit("llm reasoning")]

AgentFindingObj ==
    [EmptyObj EXCEPT !["issue"] = Lit("llm issue"),
                     !["reason"] = Lit("llm reason"),
                     !["fixed_code"] = Lit("llm fixed code"),
                     !["feedback"] = Lit("llm feedback")]

\* The object a "json" token spells, by the token's payload name.
JsonObject(p) ==
    CASE p = "decision_both" -> DecisionObj(TRUE, TRUE)
      [] p = "decision_doc" -> DecisionObj(TRUE, FALSE)
      [] p = "decision_sec" -> DecisionObj(FALSE, TRUE)
      [] p = "decision_none" -> DecisionObj(FALSE, FALSE)
      [] p = "decision_partial" ->
            [DecisionObj(TRUE, FALSE) EXCEPT !["reasoning"] = AbsentV]
      [] p = "finding_agent" -> AgentFindingObj
      [] p = "finding_full" ->
            [AgentFindingObj EXCEPT !["code"] = Lit("llm code")]
      [] p = "finding_nofix" ->
            [AgentFindingObj EXCEPT !["code"] = Lit("llm code"),
                                    !["fixed_code"] = AbsentV]
      [] p = "finding_nullissue" ->
            [AgentFindingObj EXCEPT !["code"] = Lit("llm code"),
                                    !["issue"] = NullV]
      [] p = "finding_feedback_only" ->
            [EmptyObj EXCEPT !["feedback"] = Lit("llm feedback")]
      [] OTHER -> EmptyObj

PyNone == [kind |-> "None"]
PyList == [kind |-> "list"]
PyDict(o) == [kind |-> "dict", obj |-> o]

\* json.loads(s): the decoded value, or a JSONDecodeError.
JsonLoads(s) ==
    LET t == Strip(s) IN
    IF Len(t) = 1 /\ t[1].k = "json"
    THEN [ok |-> TRUE, val |-> PyDict(JsonObject(t[1].p))]
    ELSE IF Len(t) = 1 /\ t[1].k = "arr"
    THEN [ok |-> TRUE, val |-> PyList]
    ELSE [ok |-> FALSE, val |-> PyNone]

\* dict.get(key, default)
DictGet(o, key, default) == IF o[key] = AbsentV THEN default ELSE o[key]

\* A faulty variant of Truthy: every decoded value passes "if llm_json_response".
Truthy_Always(v) == TRUE

\* bool(value) of a decoded value (an empty dict is falsy).
Truthy(v) ==
    CASE v.kind = "None" -> FALSE
      [] v.kind = "list" -> TRUE
      [] v.kind = "dict" -> v.obj # EmptyObj

\* The text after the last "</think>" marker, stripped.
AfterThink(s) ==
    LET last == CHOOSE i \in 1..Len(s) :
                  s[i].k = "think" /\ \A j \in (i + 1)..Len(s) : s[j].k # "think"
    IN Strip(SubSeq(s, last + 1, Len(s)))

\* core.utils.parse_thinking_outputs: the decoded value, None on a
\* JSONDecodeError.
parse_thinking_outputs(agent_response_str) ==
    LET s == IF \E i \in 1..Len(agent_response_str) :
                  agent_response_str[i].k = "think"
             THEN AfterThink(agent_response_str)
             ELSE agent_response_str
        r == JsonLoads(s)
    IN IF r.ok THEN r.val ELSE PyNone

\* ---------------------------------------------------------------- schemas

None == [tag |-> "None"]
EXPECTED == [tag |-> "EXPECTED"]

\* A faulty variant of OutputSchema: the fields are not validated.
OutputSchema_Unvalidated(code, issue, reason, fixed_code, feedback) ==
    [ok |-> TRUE,
     val |-> [tag |-> "OutputSchema", code |-> code, issue |-> issue,
              reason |-> reason, fixed_code |-> fixed_code, feedback |-> feedback]]

\* OutputSchema(code=, issue=, reason=, fixed_code=, feedback=): the model
\* instance, or a pydantic ValidationError (ok = FALSE).  A keyword that is
\* not given is AbsentV; fixed_code defaults to None.
OutputSchema(code, issue, reason, fixed_code, feedback) ==
    IF /\ IsStr(code) /\ IsStr(issue) /\ IsStr(reason) /\ IsStr(feedback)
       /\ (IsStr(fixed_code) \/ fixed_code \in {NullV, AbsentV})
    THEN [ok |-> TRUE,
          val |-> [tag |-> "OutputSchema", code |-> code, issue |-> issue,
                   reason |-> reason,
                   fixed_code |-> IF fixed_code = AbsentV THEN NullV
                                  ELSE fixed_code,
                   feedback |-> feedback]]
    ELSE [ok |-> FALSE, val |-> None]

\* OrchestratorDecision(analysis_depth=, invoke_doc_agent=,
\* invoke_security_agent=, reasoning=)
OrchestratorDecision(analysis_depth, invoke_doc_agent, invoke_security_agent, reasoning) ==
    IF /\ IsStr(analysis_depth) /\ IsStr(reasoning)
       /\ IsBool(invoke_doc_agent) /\ IsBool(invoke_security_agent)
    THEN [ok |-> TRUE,
          val |-> [analysis_depth |-> analysis_depth,
                   invoke_doc_agent |-> (invoke_doc_agent = TrueV),
                   invoke_security_agent |-> (invoke_security_agent = TrueV),
                   reasoning |-> reasoning]]
    ELSE [ok |-> FALSE, val |-> None]

\* An exception object: its class and str(e).
Exc(class, msg) == [class |-> class, msg |-> msg]

\* ----------------------------------------------------------------- inputs

\* Outcome of one LLM / agent query: a response text, or an exception.
Returned(text) == [raised |-> FALSE, text |-> text]
Raised == [raised |-> TRUE, text |-> << >>]
LLMError == Exc("LLMError", Lit("connection error"))

Json(p) == Tok("json", p)
Think == Tok("think", "</think>")
Ws == Tok("ws", " ")
NotJson == Tok("txt", "not json")

\* Responses of the assessment LLM call.
AssessResponses ==
    { << Json("decision_both") >>,
      << Json("decision_doc") >>,
      << Json("decision_sec") >>,
      << Json("decision_none") >>,
      << NotJson, Json("decision_sec"), NotJson >>,
      << Tok("txt", "thinking"), Think, Ws, Json("decision_doc") >>,
      << NotJson >> }

\* Responses of a sub-analysis agent query.
AgentResponses ==
    { << Tok("txt", "thinking"), Think, Ws, Json("finding_agent") >>,
      << NotJson >> }

\* Responses of the aggregation LLM call.
AggResponses ==
    { << Json("finding_full") >>,
      << Json("finding_nofix") >>,
      << Json("finding_nullissue") >>,
      << Tok("txt", "thinking"), Think, Ws, Json("finding_full") >>,
      << NotJson >>,
      << Tok("arr", "[1]") >> }

Outcomes(responses) == {Raised} \cup {Returned(r) : r \in responses}

\* What the LLM backend and the agents may answer at each call site.
AssessOutcomes == Outcomes(AssessResponses)
AgentOutcomes == Outcomes(AgentResponses)
AggOutcomes == Outcomes(AggResponses)

\* The answers in the runs that also receive completion events from outside:
\* a decision for one agent or for none, well-formed findings, a well-formed
\* aggregation.
StrayAssessOutcomes == {Returned(<< Json(p) >>) : p \in {"decision_doc", "decision_sec", "decision_none"}}
StrayAgentOutcomes == {Returned(<< Json("finding_agent") >>)}
StrayAggOutcomes == {Returned(<< Json("finding_full") >>)}

\* Code strings of a request: empty, whitespace-only, a function.
Codes == { << >>, << Ws >>, Lit("def f(): pass") }

\* Request identifiers: "r1" supplied by the caller, "u1" the uuid4 that
\* start_analysis generates when none is supplied.  A caller may also
\* supply the empty string.
NoRid == "None"
NewUuid == "u1"
RequestIds == {"r1", NewUuid}
SuppliedIds == {NoRid, "", "r1"}

\* ----------------------------------------------------------------- agents

\* A faulty variant of DocExecError: the record of the except clause has no
\* fixed_code.
DocExecError_NoFixedCode(query, e) ==
    OutputSchema(query, Lit("Agent Execution Error"),
                 Lit("The documentation analysis agent encountered an internal error."),
                 NullV, Lit("An error occurred: ") \o e.msg).val

\* DocAgent.analyze_documentation(query), given the outcome of
\* self.agent.query(prompt).
DocExecError(query, e) ==
    OutputSchema(query, Lit("Agent Execution Error"),
                 Lit("The documentation analysis agent encountered an internal error."),
                 query, Lit("An error occurred: ") \o e.msg).val

analyze_documentation(query, outcome) ==
    IF outcome.raised THEN DocExecError(query, LLMError)
    ELSE
      LET llm_json_response == parse_thinking_outputs(outcome.text) IN
      IF Truthy(llm_json_response)
      THEN IF llm_json_response.kind # "dict"
           THEN DocExecError(query,
                    Exc("AttributeError", Lit("'list' object has no attribute 'get'")))
           ELSE LET o == llm_json_response.obj
                    r == OutputSchema(query,
                           DictGet(o, "issue", Lit("No issue details provided by agent.")),
                           DictGet(o, "reason", Lit("No reason provided by agent.")),
                           DictGet(o, "fixed_code", query),
                           DictGet(o, "feedback", Lit("No feedback provided by agent.")))
                IN IF r.ok THEN r.val
                   ELSE DocExecError(query,
                            Exc("ValidationError", Lit("validation error for OutputSchema")))
      ELSE OutputSchema(query, Lit("Agent Response Error"),
               Lit("Agent failed to format its output correctly after processing."),
               query,
               Lit("Agent did not produce the expected JSON output. Raw response: ")
                   \o outcome.text).val

\* SecurityAgent.analyze_security(query), given the outcome of
\* self.agent.query(prompt).
SecExecError(query, e) ==
    OutputSchema(query, Lit("SecurityAgent Execution Error"),
                 Lit("Exception during agent processing."),
                 query, Lit("Error in SecurityAgent: ") \o e.msg).val

analyze_security(query, outcome) ==
    IF outcome.raised THEN SecExecError(query, LLMError)
    ELSE
      LET llm_json_response == parse_thinking_outputs(outcome.text) IN
      IF Truthy(llm_json_response)
      THEN IF llm_json_response.kind # "dict"
           THEN SecExecError(query,
                    Exc("AttributeError", Lit("'list' object has no attribute 'get'")))
           ELSE LET o == llm_json_response.obj
                    r == OutputSchema(query,
                           DictGet(o, "issue", Lit("No issue details provided by agent.")),
                           DictGet(o, "reason", Lit("No reason provided by agent.")),
                           DictGet(o, "fixed_code", query),
                           DictGet(o, "feedback", Lit("No feedback provided by agent.")))
                IN IF r.ok THEN r.val
                   ELSE SecExecError(query,
                            Exc("ValidationError", Lit("validation error for OutputSchema")))
      ELSE OutputSchema(query, Lit("Agent Response Error"),
               Lit("Agent failed to format its output correctly after processing."),
               query,
               Lit("Agent did not produce the expected JSON output. Raw response: ")
                   \o outcome.text).val

\* ----------------------------------------------------------------- events

StartEvent(code_input, request_id) ==
    [type |-> "StartEvent", code_input |-> code_input, request_id |-> request_id]

CodeAnalysisRequestEvent(request_id, code_input) ==
    [type |-> "CodeAnalysisRequestEvent", request_id |-> request_id,
     code_input |-> code_input]

InitialAssessmentEvent(request_id, code_string, decision) ==
    [type |-> "InitialAssessmentEvent", request_id |-> request_id,
     code_string |-> code_string, assessment |-> decision]

DocAnalysisRequestTrigger(request_id, code_string) ==
    [type |-> "DocAnalysisRequestTrigger", request_id |-> request_id,
     code_string |-> code_string]

SecurityAnalysisRequestTrigger(request_id, code_string) ==
    [type |-> "SecurityAnalysisRequestTrigger", request_id |-> request_id,
     code_string |-> code_string]

DocAnalysisCompleteEvent(request_id, doc_findings) ==
    [type |-> "DocAnalysisCompleteEvent", request_id |-> request_id,
     doc_findings |-> doc_findings]

SecurityAnalysisCompleteEvent(request_id, security_findings) ==
    [type |-> "SecurityAnalysisCompleteEvent", request_id |-> request_id,
     security_findings |-> security_findings]

AggregationReadyEvent(request_id, code_string, decision, doc_findings, security_findings) ==
    [type |-> "AggregationReadyEvent", request_id |-> request_id,
     code_string |-> code_string, assessment |-> decision,
     doc_findings |-> doc_findings, security_findings |-> security_findings]

WorkflowCompleteOutput(request_id, final_aggregated_output, doc_agent_output, security_agent_output) ==
    [request_id |-> request_id,
     final_aggregated_output |-> final_aggregated_output,
     doc_agent_output |-> doc_agent_output,
     security_agent_output |-> security_agent_output]

StopEvent(r) == [type |-> "StopEvent", result |-> r]

\* ------------------------------------------------------------------ steps

Steps == {"start_analysis", "initial_assessment_step", "dispatch_agencies_step",
          "doc_analysis_step", "security_analysis_step", "collector_step",
          "aggregation_step", "final_aggregation_step", "_done"}

\* The event types in each step's signature.
Accepts(step) ==
    CASE step = "start_analysis" -> {"StartEvent"}
      [] step = "initial_assessment_step" -> {"CodeAnalysisRequestEvent"}
      [] step = "dispatch_agencies_step" -> {"InitialAssessmentEvent"}
      [] step = "doc_analysis_step" -> {"DocAnalysisRequestTrigger"}
      [] step = "security_analysis_step" -> {"SecurityAnalysisRequestTrigger"}
      [] step = "collector_step" ->
            {"DocAnalysisCompleteEvent", "SecurityAnalysisCompleteEvent"}
      [] step = "aggregation_step" -> {"AggregationReadyEvent"}
      [] step = "final_aggregation_step" -> {"AggregationReadyEvent"}
      [] step = "_done" -> {"StopEvent"}

\* @step(num_workers=2) of collector_step; @step without num_workers.
CollectorWorkers == 2
DefaultWorkers == 4

NumWorkers(step) ==
    IF step = "collector_step" THEN CollectorWorkers ELSE DefaultWorkers

\* The analyze_code runs of the orchestrator that may overlap (two threads).
Runs == {"a", "b"}

VARIABLES
    queues,      \* step -> the events waiting for the step, oldest first
    tasks,       \* bag of handlers suspended at an await: [step, ev, pc, ...]
    ctxStore,    \* the Context store: key -> "absent" | "None" | "ref"
    heap,        \* request id -> the workflow_state dict a "ref" points to
    status,      \* "running" | "blocked" | "done" | "failed"
    result,      \* the run's result (the first StopEvent's result)
    failure,     \* the step an exception left, and the exception
    request,     \* the request: its code, and the id start_analysis settled on
    assessment,  \* the decision of initial_assessment_step
    produced,    \* findings the analysis steps produced, by agent
    triggers,    \* the sub-analysis triggers sent so far
    recorded,    \* the completion events the collector wrote, in order
    arEmitted,   \* the AggregationReadyEvents emitted so far, with emitter
    llmCalls,    \* step -> number of LLM calls started
    strays,      \* completion events injected from outside so far
    call,        \* the function last applied on its own, with its arguments
    ret,         \* what that application returned
    global_tool_outputs,  \* orchestrator.main's module-level list
    runs         \* each analyze_code run: where it is, the tool calls it made
                 \* that were recorded, and the results it returned

vars == << queues, tasks, ctxStore, heap, status, result, failure, request,
           assessment, produced, triggers, recorded, arEmitted, llmCalls,
           strays, call, ret, global_tool_outputs, runs >>

\* ctx.send_event(ev): ev joins the queue of every step that accepts it.
send_event(q, ev) ==
    [s \in Steps |-> IF ev.type \in Accepts(s) THEN Append(q[s], ev) ELSE q[s]]

\* The step's queue without its oldest event.
Pop(q, step) == [q EXCEPT ![step] = Tail(q[step])]

\* Number of handlers of a step suspended at an await.
InFlight(step) ==
    LET ts == {t \in BagToSet(tasks) : t.step = step} IN
    BagCardinality([t \in ts |-> tasks[t]])

\* A worker of the step is free and an event waits for it.
CanTake(step) ==
    /\ status = "running"
    /\ queues[step] # << >>
    /\ InFlight(step) < NumWorkers(step)

InitWith(codes, ids) ==
    /\ \E c \in codes, supplied \in ids :
         /\ queues = send_event([s \in Steps |-> << >>], StartEvent(c, supplied))
         /\ request = [code |-> c, request_id |-> NoRid]
    /\ tasks = EmptyBag
    /\ ctxStore = [k \in RequestIds |-> "absent"]
    /\ heap = [k \in RequestIds |-> None]
    /\ status = "running"
    /\ result = None
    /\ failure = None
    /\ assessment = None
    /\ produced = [doc |-> EXPECTED, sec |-> EXPECTED]
    /\ triggers = {}
    /\ recorded = << >>
    /\ arEmitted = << >>
    /\ llmCalls = [s \in Steps |-> 0]
    /\ strays = 0
    /\ call = None
    /\ ret = None
    /\ global_tool_outputs = << >>
    /\ runs = [r \in Runs |-> [pc |-> "idle", made |-> << >>, results |-> None]]

Init == InitWith(Codes, SuppliedIds)

\* A caller-supplied identifier and code to analyse.
InitStray == InitWith({Lit("def f(): pass")}, {"r1"})

\* An exception leaves a step: the run fails with it.
Raise(step, e) ==
    /\ status' = "failed"
    /\ failure' = [step |-> step, exc |-> e]

\* A faulty variant of start_analysis: the supplied identifier is ignored.
start_analysis_AlwaysGenerate ==
    /\ CanTake("start_analysis")
    /\ LET ev == Head(queues["start_analysis"]) IN
       /\ request' = [request EXCEPT !.request_id = NewUuid]
       /\ queues' = send_event(Pop(queues, "start_analysis"),
                       CodeAnalysisRequestEvent(NewUuid, ev.code_input))
    /\ UNCHANGED << global_tool_outputs, runs, call, ret, tasks, ctxStore, heap, status, result, failure, assessment,
                    produced, triggers, recorded, arEmitted, llmCalls, strays >>

\* start_analysis: "request_id or str(uuid.uuid4())" keeps a supplied
\* identifier unless it is None or empty.
start_analysis ==
    /\ CanTake("start_analysis")
    /\ LET ev == Head(queues["start_analysis"])
           current_request_id ==
               IF ev.request_id \notin {NoRid, ""} THEN ev.request_id ELSE NewUuid
       IN /\ request' = [request EXCEPT !.request_id = current_request_id]
          /\ queues' = send_event(Pop(queues, "start_analysis"),
                          CodeAnalysisRequestEvent(current_request_id, ev.code_input))
    /\ UNCHANGED << global_tool_outputs, runs, call, ret, tasks, ctxStore, heap, status, result, failure, assessment,
                    produced, triggers, recorded, arEmitted, llmCalls, strays >>

\* The decision for empty code, and the fail-open default.
EmptyCodeDecision ==
    OrchestratorDecision(Lit("minimum"), FalseV, FalseV, Lit("Input code was empty.")).val

DefaultDecision(e) ==
    OrchestratorDecision(Lit("standard"), TrueV, TrueV, Lit("Parse error: ") \o e.msg).val

\* The try block of initial_assessment_step: the decision decoded from the
\* response text, or the default built in its except clause.
ParseAssessment(assessment_response_str) ==
    LET json_start_index == Find(assessment_response_str)
        json_end_index == RFind(assessment_response_str) + 1
    IN
    IF json_start_index # -1 /\ json_end_index # -1 /\ json_start_index < json_end_index
    THEN LET json_str == Slice(assessment_response_str, json_start_index, json_end_index)
             loaded == JsonLoads(json_str)
         IN IF ~loaded.ok
            THEN DefaultDecision(Exc("JSONDecodeError", Lit("Expecting property name")))
            ELSE LET o == loaded.val.obj
                     d == OrchestratorDecision(o["analysis_depth"], o["invoke_doc_agent"],
                              o["invoke_security_agent"], o["reasoning"])
                 IN IF d.ok THEN d.val
                    ELSE DefaultDecision(Exc("ValidationError",
                             Lit("validation error for OrchestratorDecision")))
    ELSE DefaultDecision(Exc("JSONDecodeError", Lit("No JSON found: line 1 column 1 (char 0)")))

\* initial_assessment_step: empty code short-circuits; otherwise one LLM call
\* (outside any try), then the parse.
initial_assessment_step(outcomes) ==
    /\ CanTake("initial_assessment_step")
    /\ LET ev == Head(queues["initial_assessment_step"])
           code_string == ev.code_input
           q == Pop(queues, "initial_assessment_step")
       IN IF Strip(code_string) = << >>
          THEN /\ assessment' = EmptyCodeDecision
               /\ queues' = send_event(q,
                     InitialAssessmentEvent(ev.request_id, code_string, EmptyCodeDecision))
               /\ UNCHANGED << llmCalls, status, failure >>
          ELSE \E outcome \in outcomes :
               /\ llmCalls' = [llmCalls EXCEPT !["initial_assessment_step"] = @ + 1]
               /\ IF outcome.raised
                  THEN /\ Raise("initial_assessment_step", LLMError)
                       /\ queues' = q
                       /\ UNCHANGED assessment
                  ELSE LET decision == ParseAssessment(outcome.text) IN
                       /\ assessment' = decision
                       /\ queues' = send_event(q,
                             InitialAssessmentEvent(ev.request_id, code_string, decision))
                       /\ UNCHANGED << status, failure >>
    /\ UNCHANGED << global_tool_outputs, runs, call, ret, tasks, ctxStore, heap, result, request, produced, triggers,
                    recorded, arEmitted, strays >>

\* A faulty variant of NewWorkflowState: every slot starts EXPECTED, invoked or not.
NewWorkflowState_AllExpected(ev) ==
    [assessment |-> ev.assessment,
     code_string |-> ev.code_string,
     doc_findings |-> EXPECTED,
     security_findings |-> EXPECTED]

\* The workflow_state dict that dispatch_agencies_step builds.
NewWorkflowState(ev) ==
    [assessment |-> ev.assessment,
     code_string |-> ev.code_string,
     doc_findings |-> IF ev.assessment.invoke_doc_agent THEN EXPECTED ELSE None,
     security_findings |-> IF ev.assessment.invoke_security_agent THEN EXPECTED ELSE None]

\* A faulty variant of DispatchStart: no short-circuit when no agent is invoked.
DispatchStart_AlwaysAllocate ==
    /\ CanTake("dispatch_agencies_step")
    /\ LET ev == Head(queues["dispatch_agencies_step"]) IN
       /\ queues' = Pop(queues, "dispatch_agencies_step")
       /\ heap' = [heap EXCEPT ![ev.request_id] = NewWorkflowState(ev)]
       /\ tasks' = tasks (+) SetToBag({[step |-> "dispatch_agencies_step",
                                        ev |-> ev, pc |-> "set"]})
    /\ UNCHANGED << global_tool_outputs, runs, call, ret, ctxStore, status, result, failure, request, assessment, produced,
                    triggers, recorded, arEmitted, llmCalls, strays >>

\* dispatch_agencies_step up to "await ctx.set(...)": with no agent to invoke
\* it returns the AggregationReadyEvent; otherwise it builds the state.
DispatchStart ==
    /\ CanTake("dispatch_agencies_step")
    /\ LET ev == Head(queues["dispatch_agencies_step"])
           q == Pop(queues, "dispatch_agencies_step")
       IN IF ~ev.assessment.invoke_doc_agent /\ ~ev.assessment.invoke_security_agent
          THEN LET ar == AggregationReadyEvent(ev.request_id, ev.code_string,
                             ev.assessment, None, None)
               IN /\ queues' = send_event(q, ar)
                  /\ arEmitted' = Append(arEmitted, [by |-> "dispatch_agencies_step", ev |-> ar])
                  /\ UNCHANGED << tasks, heap >>
          ELSE /\ queues' = q
               /\ heap' = [heap EXCEPT ![ev.request_id] = NewWorkflowState(ev)]
               /\ tasks' = tasks (+) SetToBag({[step |-> "dispatch_agencies_step",
                                                ev |-> ev, pc |-> "set"]})
               /\ UNCHANGED arEmitted
    /\ UNCHANGED << global_tool_outputs, runs, call, ret, ctxStore, status, result, failure, request, assessment, produced,
                    triggers, recorded, llmCalls, strays >>

\* A faulty variant of DispatchPersist: the state is not stored before the send.
DispatchPersist_Skip ==
    /\ status = "running"
    /\ \E t \in BagToSet(tasks) :
         /\ t.step = "dispatch_agencies_step" /\ t.pc = "set"
         /\ tasks' = (tasks (-) SetToBag({t})) (+) SetToBag({[t EXCEPT !.pc = "send"]})
    /\ UNCHANGED << global_tool_outputs, runs, call, ret, queues, ctxStore, heap, status, result, failure, request,
                    assessment, produced, triggers, recorded, arEmitted, llmCalls, strays >>

\* "await ctx.set(ev.request_id, workflow_state)" of dispatch_agencies_step.
DispatchPersist ==
    /\ status = "running"
    /\ \E t \in BagToSet(tasks) :
         /\ t.step = "dispatch_agencies_step" /\ t.pc = "set"
         /\ ctxStore' = [ctxStore EXCEPT ![t.ev.request_id] = "ref"]
         /\ tasks' = (tasks (-) SetToBag({t})) (+) SetToBag({[t EXCEPT !.pc = "send"]})
    /\ UNCHANGED << global_tool_outputs, runs, call, ret, queues, heap, status, result, failure, request, assessment,
                    produced, triggers, recorded, arEmitted, llmCalls, strays >>

\* The ctx.send_event calls that end dispatch_agencies_step.
SendTriggers(q, ev) ==
    LET q1 == IF ev.assessment.invoke_doc_agent
              THEN send_event(q, DocAnalysisRequestTrigger(ev.request_id, ev.code_string))
              ELSE q
    IN IF ev.assessment.invoke_security_agent
       THEN send_event(q1, SecurityAnalysisRequestTrigger(ev.request_id, ev.code_string))
       ELSE q1

DispatchSend ==
    /\ status = "running"
    /\ \E t \in BagToSet(tasks) :
         /\ t.step = "dispatch_agencies_step" /\ t.pc = "send"
         /\ queues' = SendTriggers(queues, t.ev)
         /\ triggers' = triggers
                \cup (IF t.ev.assessment.invoke_doc_agent THEN {"doc"} ELSE {})
                \cup (IF t.ev.assessment.invoke_security_agent THEN {"sec"} ELSE {})
         /\ tasks' = tasks (-) SetToBag({t})
    /\ UNCHANGED << global_tool_outputs, runs, call, ret, ctxStore, heap, status, result, failure, request, assessment,
                    produced, recorded, arEmitted, llmCalls, strays >>

\* Outcome of the agent call inside a step's try: an exception, or findings.
AgentRaised(e) == [raised |-> TRUE, exc |-> e, value |-> None]
AgentReturned(findings) == [raised |-> FALSE, exc |-> None, value |-> findings]

\* A faulty variant of TryFindings: an exception leaves the slot's sentinel.
TryFindings_KeepExpected(agent_result) ==
    IF agent_result.raised THEN EXPECTED ELSE agent_result.value

\* The try/except of both analysis steps: the findings the agent returned,
\* None when the call raised.
TryFindings(agent_result) ==
    IF agent_result.raised THEN None ELSE agent_result.value

\* The event doc_analysis_step returns for a trigger.
doc_analysis_event(ev, agent_result) ==
    DocAnalysisCompleteEvent(ev.request_id, TryFindings(agent_result))

\* The event security_analysis_step returns for a trigger.
security_analysis_event(ev, agent_result) ==
    SecurityAnalysisCompleteEvent(ev.request_id, TryFindings(agent_result))

\* doc_analysis_step: the agent call is synchronous (no await).  Inside the
\* run the except clause of the step is not taken: analyze_documentation
\* has its own catch-all and returns findings for every LLM outcome.
doc_analysis_step(outcomes) ==
    /\ CanTake("doc_analysis_step")
    /\ \E outcome \in outcomes :
         LET ev == Head(queues["doc_analysis_step"])
             done == doc_analysis_event(ev,
                         AgentReturned(analyze_documentation(ev.code_string, outcome)))
         IN /\ produced' = [produced EXCEPT !.doc = done.doc_findings]
            /\ queues' = send_event(Pop(queues, "doc_analysis_step"), done)
    /\ UNCHANGED << global_tool_outputs, runs, call, ret, tasks, ctxStore, heap, status, result, failure, request,
                    assessment, triggers, recorded, arEmitted, llmCalls, strays >>

\* security_analysis_step
security_analysis_step(outcomes) ==
    /\ CanTake("security_analysis_step")
    /\ \E outcome \in outcomes :
         LET ev == Head(queues["security_analysis_step"])
             done == security_analysis_event(ev,
                         AgentReturned(analyze_security(ev.code_string, outcome)))
         IN /\ produced' = [produced EXCEPT !.sec = done.security_findings]
            /\ queues' = send_event(Pop(queues, "security_analysis_step"), done)
    /\ UNCHANGED << global_tool_outputs, runs, call, ret, tasks, ctxStore, heap, status, result, failure, request,
                    assessment, triggers, recorded, arEmitted, llmCalls, strays >>

\* A faulty variant of Record: the findings go to the other agent's slot.
Record_Swapped(state, ev) ==
    IF ev.type = "DocAnalysisCompleteEvent"
    THEN [state EXCEPT !.security_findings = ev.doc_findings]
    ELSE [state EXCEPT !.doc_findings = ev.security_findings]

\* workflow_state[slot] = findings of the completion event.
\* A faulty variant of Record: the findings go to both slots.
Record_BothSlots(state, ev) ==
    IF ev.type = "DocAnalysisCompleteEvent"
    THEN [state EXCEPT !.doc_findings = ev.doc_findings,
                       !.security_findings = ev.doc_findings]
    ELSE [state EXCEPT !.security_findings = ev.security_findings,
                       !.doc_findings = ev.security_findings]

Record(state, ev) ==
    IF ev.type = "DocAnalysisCompleteEvent"
    THEN [state EXCEPT !.doc_findings = ev.doc_findings]
    ELSE [state EXCEPT !.security_findings = ev.security_findings]

\* A faulty variant of CollectorGet: the state is looked up without regard to
\* the event's request id (any request that has state).
CollectorGet_AnyRequest ==
    /\ CanTake("collector_step")
    /\ LET ev == Head(queues["collector_step"])
       IN /\ queues' = Pop(queues, "collector_step")
          /\ IF \A r \in RequestIds : ctxStore[r] # "ref"
             THEN UNCHANGED << heap, tasks, recorded >>
             ELSE \E r \in RequestIds :
                  /\ ctxStore[r] = "ref"
                  /\ heap' = [heap EXCEPT ![r] = Record(@, ev)]
                  /\ tasks' = tasks (+) SetToBag({[step |-> "collector_step",
                                  ev |-> [ev EXCEPT !.request_id = r], pc |-> "set"]})
                  /\ recorded' = Append(recorded, ev.type)
    /\ UNCHANGED << global_tool_outputs, runs, call, ret, ctxStore, status, result, failure, request, assessment,
                    produced, triggers, arEmitted, llmCalls, strays >>

\* A faulty variant of CollectorGet: ctx.get without a default raises for a request
\* that has no stored state.
CollectorGet_RaiseOnMissing ==
    /\ CanTake("collector_step")
    /\ LET ev == Head(queues["collector_step"])
           request_id == ev.request_id
       IN /\ queues' = Pop(queues, "collector_step")
          /\ IF ctxStore[request_id] # "ref"
             THEN /\ Raise("collector_step", Exc("ValueError", Lit("key not found")))
                  /\ UNCHANGED << heap, tasks, recorded >>
             ELSE /\ heap' = [heap EXCEPT ![request_id] = Record(@, ev)]
                  /\ tasks' = tasks (+) SetToBag({[step |-> "collector_step",
                                                   ev |-> ev, pc |-> "set"]})
                  /\ recorded' = Append(recorded, ev.type)
                  /\ UNCHANGED << status, failure >>
    /\ UNCHANGED << global_tool_outputs, runs, call, ret, ctxStore, result, request, assessment,
                    produced, triggers, arEmitted, llmCalls, strays >>

\* collector_step from "await ctx.get(...)" up to "await ctx.set(...)": with
\* no state stored the event is discarded; otherwise the slot of the dict
\* that ctx.get returned (the stored object itself) is overwritten.
CollectorGet ==
    /\ CanTake("collector_step")
    /\ LET ev == Head(queues["collector_step"])
           request_id == ev.request_id
       IN /\ queues' = Pop(queues, "collector_step")
          /\ IF ctxStore[request_id] # "ref"
             THEN UNCHANGED << heap, tasks, recorded >>
             ELSE /\ heap' = [heap EXCEPT ![request_id] = Record(@, ev)]
                  /\ tasks' = tasks (+) SetToBag({[step |-> "collector_step",
                                                   ev |-> ev, pc |-> "set"]})
                  /\ recorded' = Append(recorded, ev.type)
    /\ UNCHANGED << global_tool_outputs, runs, call, ret, ctxStore, status, result, failure, request, assessment,
                    produced, triggers, arEmitted, llmCalls, strays >>

\* A faulty variant of AllDone: one slot filled is enough.
AllDone_Any(workflow_state) ==
    LET doc_done == workflow_state.doc_findings # EXPECTED
        sec_done == workflow_state.security_findings # EXPECTED
    IN doc_done \/ sec_done

\* The test that ends collector_step.
AllDone(workflow_state) ==
    LET doc_done == workflow_state.doc_findings # EXPECTED
        sec_done == workflow_state.security_findings # EXPECTED
    IN doc_done /\ sec_done

\* A faulty variant of CollectorSet: the worker stores a private copy of the
\* state that holds only its own event's findings.
CollectorSet_WriteBackCopy ==
    /\ status = "running"
    /\ \E t \in BagToSet(tasks) :
         /\ t.step = "collector_step" /\ t.pc = "set"
         /\ LET request_id == t.ev.request_id
                workflow_state == Record(NewWorkflowState(heap[request_id]), t.ev)
                ar == AggregationReadyEvent(request_id, workflow_state.code_string,
                          workflow_state.assessment, workflow_state.doc_findings,
                          workflow_state.security_findings)
            IN /\ ctxStore' = [ctxStore EXCEPT ![request_id] = "ref"]
               /\ heap' = [heap EXCEPT ![request_id] = workflow_state]
               /\ IF AllDone(workflow_state)
                  THEN /\ queues' = send_event(queues, ar)
                       /\ arEmitted' = Append(arEmitted, [by |-> "collector_step", ev |-> ar])
                  ELSE UNCHANGED << queues, arEmitted >>
         /\ tasks' = tasks (-) SetToBag({t})
    /\ UNCHANGED << global_tool_outputs, runs, call, ret, status, result, failure, request, assessment, produced,
                    triggers, recorded, llmCalls, strays >>

\* collector_step from "await ctx.set(request_id, workflow_state)" to its
\* return: the dict is stored again and, when no slot is EXPECTED, the
\* AggregationReadyEvent is returned.  The state is not removed here.
CollectorSet ==
    /\ status = "running"
    /\ \E t \in BagToSet(tasks) :
         /\ t.step = "collector_step" /\ t.pc = "set"
         /\ LET request_id == t.ev.request_id
                workflow_state == heap[request_id]
                ar == AggregationReadyEvent(request_id, workflow_state.code_string,
                          workflow_state.assessment, workflow_state.doc_findings,
                          workflow_state.security_findings)
            IN /\ ctxStore' = [ctxStore EXCEPT ![request_id] = "ref"]
               /\ IF AllDone(workflow_state)
                  THEN /\ queues' = send_event(queues, ar)
                       /\ arEmitted' = Append(arEmitted, [by |-> "collector_step", ev |-> ar])
                  ELSE UNCHANGED << queues, arEmitted >>
         /\ tasks' = tasks (-) SetToBag({t})
    /\ UNCHANGED << global_tool_outputs, runs, call, ret, heap, status, result, failure, request, assessment, produced,
                    triggers, recorded, llmCalls, strays >>

\* A step with an LLM call takes an event and suspends at
\* "await self.llm.acomplete(...)".
StartLLM(step) ==
    /\ CanTake(step)
    /\ tasks' = tasks (+) SetToBag({[step |-> step, ev |-> Head(queues[step]),
                                     pc |-> "llm"]})
    /\ queues' = Pop(queues, step)
    /\ llmCalls' = [llmCalls EXCEPT ![step] = @ + 1]
    /\ UNCHANGED << global_tool_outputs, runs, call, ret, ctxStore, heap, status, result, failure, request, assessment,
                    produced, triggers, recorded, arEmitted, strays >>

AggregationStart == StartLLM("aggregation_step")

\* The try/except of aggregation_step: the OutputSchema decoded from the
\* response, else the fallback OutputSchema(summary=, recommendations=,
\* issues=), which gives none of the required fields.
AggregationOutput(outcome) ==
    LET fallback == OutputSchema(AbsentV, AbsentV, AbsentV, AbsentV, AbsentV)
        response_text == outcome.text
        json_start_index == Find(response_text)
        json_end_index == RFind(response_text) + 1
        loaded == JsonLoads(Slice(response_text, json_start_index, json_end_index))
    IN IF outcome.raised THEN fallback
       ELSE IF json_start_index # -1 /\ json_end_index # -1
       THEN IF ~loaded.ok THEN fallback
            ELSE LET o == loaded.val.obj
                     final_output == OutputSchema(o["code"], o["issue"], o["reason"],
                                         o["fixed_code"], o["feedback"])
                 IN IF final_output.ok THEN final_output ELSE fallback
       ELSE fallback

\* aggregation_step after its LLM call.
AggregationReturn(outcomes) ==
    /\ status = "running"
    /\ \E t \in BagToSet(tasks), outcome \in outcomes :
         /\ t.step = "aggregation_step" /\ t.pc = "llm"
         /\ tasks' = tasks (-) SetToBag({t})
         /\ LET final_output == AggregationOutput(outcome) IN
            IF final_output.ok
            THEN /\ queues' = send_event(queues,
                        StopEvent(WorkflowCompleteOutput(t.ev.request_id, final_output.val,
                                      t.ev.doc_findings, t.ev.security_findings)))
                 /\ UNCHANGED << status, failure >>
            ELSE /\ Raise("aggregation_step",
                        Exc("ValidationError", Lit("validation error for OutputSchema")))
                 /\ UNCHANGED queues
    /\ UNCHANGED << global_tool_outputs, runs, call, ret, ctxStore, heap, result, request, assessment, produced, triggers,
                    recorded, arEmitted, llmCalls, strays >>

FinalAggregationStart == StartLLM("final_aggregation_step")

\* final_aggregation_step from the LLM response to the OutputSchema: the
\* instance, or the exception that leaves the step (nothing is caught here).
FinalAggregatedOutput(code_string, outcome) ==
    IF outcome.raised THEN [ok |-> FALSE, exc |-> LLMError, val |-> None]
    ELSE LET final_json_dict == parse_thinking_outputs(outcome.text) IN
         IF final_json_dict.kind # "dict"
         THEN [ok |-> FALSE, val |-> None,
               exc |-> Exc("AttributeError", Lit("object has no attribute 'get'"))]
         ELSE LET o == final_json_dict.obj
                  r == OutputSchema(code_string,
                          DictGet(o, "issue", Lit("Aggregation Incomplete")),
                          DictGet(o, "reason", Lit("N/A")),
                          DictGet(o, "fixed_code", << >>),
                          DictGet(o, "feedback", Lit("Could not generate aggregated feedback.")))
              IN IF r.ok THEN [ok |-> TRUE, val |-> r.val, exc |-> None]
                 ELSE [ok |-> FALSE, val |-> None,
                       exc |-> Exc("ValidationError", Lit("validation error for OutputSchema"))]

\* final_aggregation_step after its LLM call, up to "await ctx.set(..., None)".
FinalAggregationReturn(outcomes) ==
    /\ status = "running"
    /\ \E t \in BagToSet(tasks), outcome \in outcomes :
         /\ t.step = "final_aggregation_step" /\ t.pc = "llm"
         /\ LET out == FinalAggregatedOutput(t.ev.code_string, outcome) IN
            IF out.ok
            THEN /\ tasks' = (tasks (-) SetToBag({t})) (+)
                        SetToBag({[step |-> "final_aggregation_step", ev |-> t.ev,
                                   pc |-> "clear",
                                   workflow_result |->
                                       WorkflowCompleteOutput(t.ev.request_id, out.val,
                                           t.ev.doc_findings, t.ev.security_findings)]})
                 /\ UNCHANGED << status, failure >>
            ELSE /\ tasks' = tasks (-) SetToBag({t})
                 /\ Raise("final_aggregation_step", out.exc)
    /\ UNCHANGED << global_tool_outputs, runs, call, ret, queues, ctxStore, heap, result, request, assessment, produced,
                    triggers, recorded, arEmitted, llmCalls, strays >>

\* "await ctx.set(ev.request_id, None)" and the StopEvent of
\* final_aggregation_step.
FinalAggregationClear ==
    /\ status = "running"
    /\ \E t \in BagToSet(tasks) :
         /\ t.step = "final_aggregation_step" /\ t.pc = "clear"
         /\ ctxStore' = [ctxStore EXCEPT ![t.ev.request_id] = "None"]
         /\ queues' = send_event(queues, StopEvent(t.workflow_result))
         /\ tasks' = tasks (-) SetToBag({t})
    /\ UNCHANGED << global_tool_outputs, runs, call, ret, heap, status, result, failure, request, assessment, produced,
                    triggers, recorded, arEmitted, llmCalls, strays >>

\* The engine handles a StopEvent: the run returns its result and every
\* other handler is cancelled.
Done ==
    /\ CanTake("_done")
    /\ status' = "done"
    /\ result' = Head(queues["_done"]).result
    /\ queues' = Pop(queues, "_done")
    /\ UNCHANGED << global_tool_outputs, runs, call, ret, tasks, ctxStore, heap, failure, request, assessment, produced,
                    triggers, recorded, arEmitted, llmCalls, strays >>

\* Findings a completion event from outside the steps may carry.
StrayFinding ==
    OutputSchema(Lit("stray code"), Lit("stray issue"), Lit("stray reason"), NullV,
                 Lit("stray feedback")).val

\* A completion event reaches the collector that no analysis step of this
\* run returned (a duplicate, a late event, an event of an unknown request).
InjectCompletion ==
    /\ status = "running"
    /\ strays < MaxStray
    /\ \E r \in RequestIds, kind \in {"doc", "sec"} :
         queues' = send_event(queues,
                      IF kind = "doc" THEN DocAnalysisCompleteEvent(r, StrayFinding)
                      ELSE SecurityAnalysisCompleteEvent(r, StrayFinding))
    /\ strays' = strays + 1
    /\ UNCHANGED << global_tool_outputs, runs, call, ret, tasks, ctxStore, heap, status, result, failure, request,
                    assessment, produced, triggers, recorded, arEmitted, llmCalls >>

Next ==
    \/ start_analysis
    \/ initial_assessment_step(AssessOutcomes)
    \/ DispatchStart
    \/ DispatchPersist
    \/ DispatchSend
    \/ doc_analysis_step(AgentOutcomes)
    \/ security_analysis_step(AgentOutcomes)
    \/ CollectorGet
    \/ CollectorSet
    \/ AggregationStart
    \/ AggregationReturn(AggOutcomes)
    \/ FinalAggregationStart
    \/ FinalAggregationReturn(AggOutcomes)
    \/ FinalAggregationClear
    \/ Done

Spec == Init /\ [][Next]_vars

\* The run with completion events injected from outside.
NextStray ==
    \/ start_analysis
    \/ initial_assessment_step(StrayAssessOutcomes)
    \/ DispatchStart
    \/ DispatchPersist
    \/ DispatchSend
    \/ doc_analysis_step(StrayAgentOutcomes)
    \/ security_analysis_step(StrayAgentOutcomes)
    \/ CollectorGet
    \/ CollectorSet
    \/ AggregationStart
    \/ AggregationReturn(StrayAggOutcomes)
    \/ FinalAggregationStart
    \/ FinalAggregationReturn(StrayAggOutcomes)
    \/ FinalAggregationClear
    \/ Done
    \/ InjectCompletion

SpecStray == InitStray /\ [][NextStray]_vars

\* A second request in flight in the same engine and context store.  Its
\* start_analysis and initial_assessment_step take no Context, so it enters
\* at dispatch_agencies_step with its InitialAssessmentEvent.  There is one
\* such request (strays records that it was admitted).
OtherCode == Lit("import os")

OtherDecisions ==
    {OrchestratorDecision(Lit("deep"), TrueV, TrueV, Lit("other request")).val}

AdmitOtherRequest ==
    /\ status = "running"
    /\ strays = 0
    /\ \E decision \in OtherDecisions :
         queues' = send_event(queues,
                      InitialAssessmentEvent(NewUuid, OtherCode, decision))
    /\ strays' = strays + 1
    /\ UNCHANGED << global_tool_outputs, runs, call, ret, tasks, ctxStore, heap, status, result, failure, request,
                    assessment, produced, triggers, recorded, arEmitted, llmCalls >>

NextTwo ==
    \/ start_analysis
    \/ initial_assessment_step(StrayAssessOutcomes)
    \/ DispatchStart
    \/ DispatchPersist
    \/ DispatchSend
    \/ doc_analysis_step(StrayAgentOutcomes)
    \/ security_analysis_step(StrayAgentOutcomes)
    \/ CollectorGet
    \/ CollectorSet
    \/ AggregationStart
    \/ AggregationReturn(StrayAggOutcomes)
    \/ FinalAggregationStart
    \/ FinalAggregationReturn(StrayAggOutcomes)
    \/ FinalAggregationClear
    \/ Done
    \/ AdmitOtherRequest

SpecTwo == InitStray /\ [][NextTwo]_vars

\* ------------------------------------------------------- the run's timeout

\* ui.app.get_workflow builds the workflow with timeout=600 and
\* analyze_code_logic awaits workflow.run(): when the time is up while the
\* run is still going, the event loop cancels the run and run() raises
\* WorkflowTimeoutError.  The loop must be running for that to happen.
WorkflowTimeoutError == Exc("WorkflowTimeoutError", Lit("Operation timed out"))

Timeout ==
    /\ status = "running"
    /\ Raise("run", WorkflowTimeoutError)
    /\ UNCHANGED << global_tool_outputs, runs, call, ret, queues, tasks, ctxStore, heap, result, request,
                    assessment, produced, triggers, recorded, arEmitted, llmCalls,
                    strays >>

\* doc_analysis_step / security_analysis_step call the agent without an
\* await: analyze_documentation and analyze_security are synchronous, so the
\* event loop's thread stays inside the call until it returns.  Here the
\* call does not return (the agent's LLM or tool request hangs).
AgentCallBlocks ==
    /\ \E step \in {"doc_analysis_step", "security_analysis_step"} :
         /\ CanTake(step)
         /\ queues' = Pop(queues, step)
    /\ status' = "blocked"
    /\ UNCHANGED << global_tool_outputs, runs, call, ret, tasks, ctxStore, heap, result, failure, request,
                    assessment, produced, triggers, recorded, arEmitted, llmCalls,
                    strays >>

\* The run under its timeout.  No step is required to return; only the
\* clock is sure to advance.
NextTimed ==
    \/ start_analysis
    \/ initial_assessment_step(StrayAssessOutcomes)
    \/ DispatchStart
    \/ DispatchPersist
    \/ DispatchSend
    \/ doc_analysis_step(StrayAgentOutcomes)
    \/ security_analysis_step(StrayAgentOutcomes)
    \/ CollectorGet
    \/ CollectorSet
    \/ AggregationStart
    \/ AggregationReturn(StrayAggOutcomes)
    \/ FinalAggregationStart
    \/ FinalAggregationReturn(StrayAggOutcomes)
    \/ FinalAggregationClear
    \/ Done
    \/ AgentCallBlocks
    \/ Timeout

SpecTimed == Init /\ [][NextTimed]_vars /\ WF_vars(Timeout)

\* ------------------------------------------------------------ the caller

\* Outcome of "await workflow.run(...)": an exception, or the run's result.
RunRaised(e) == [raised |-> TRUE, exc |-> e, value |-> None]
RunReturned(r) == [raised |-> FALSE, exc |-> None, value |-> r]

\* model_instance.model_dump(mode='json') of an OutputSchema: a dict with
\* the schema's five keys.
model_dump(m) ==
    [code |-> m.code, issue |-> m.issue, reason |-> m.reason,
     fixed_code |-> m.fixed_code, feedback |-> m.feedback]

\* ui.app.pydantic_to_dict
pydantic_to_dict(model_instance) ==
    IF model_instance = None THEN None ELSE model_dump(model_instance)

\* ui.app.analyze_code_logic, given the outcome of workflow.run(): what it
\* returns (it has no path that raises).  The dicts it builds itself have
\* the one key "info" or "error".
analyze_code_logic(code_str, run) ==
    IF Strip(code_str) = << >>
    THEN RunReturned([info |-> Lit("No code provided.")])
    ELSE IF run.raised
    THEN RunReturned([error |-> Lit("Analysis failed: ") \o run.exc.msg])
    ELSE LET final_results_dict == pydantic_to_dict(run.value.final_aggregated_output)
         IN IF final_results_dict = None
            THEN RunReturned([info |-> Lit("No combined output from workflow.")])
            ELSE RunReturned(final_results_dict)

\* ------------------------------------------------------------ tool client

\* Python values that a tool response decodes to.  An envelope is the dict
\* the MCP server answers with; its "error" is a message, "" (empty), "<null>"
\* or "<absent>" (no such key), and its "result" is a value.
PyAbsent == [kind |-> "absent"]
PyNull == [kind |-> "None"]
PyNum == [kind |-> "int"]
PyEmptyDict == [kind |-> "dict", error |-> "<absent>", result |-> PyAbsent]
PyReport == [kind |-> "dict", error |-> "<absent>", result |-> PyAbsent,
             tool |-> "report"]
PyListOf(items) == [kind |-> "list", items |-> items]
PyStrOf(spells) == [kind |-> "str", spells |-> spells]

ToolErrors == {"<absent>", "<null>", "", "tool failed"}
ToolResults == {PyAbsent, PyNull, PyEmptyDict, PyReport}

Envelope(error, tool_result) ==
    [kind |-> "dict", error |-> error, result |-> tool_result]
Envelopes == {Envelope(e, r) : e \in ToolErrors, r \in ToolResults}

\* What a response body may decode to: scalars, lists without a dict in
\* front, a bare envelope, [envelope] and [envelope, status_code].
DecodedBodies ==
    {PyNull, PyNum, PyListOf(<< >>), PyListOf(<< PyNum >>)}
        \cup Envelopes
        \cup {PyListOf(<< env >>) : env \in Envelopes}
        \cup {PyListOf(<< env, PyNum >>) : env \in Envelopes}

\* Strings: the empty string, text that is not JSON, JSON text of a value.
InvalidJson == [kind |-> "invalid"]
EmptyStr == PyStrOf([kind |-> "empty"])
ToolStrings ==
    {EmptyStr, PyStrOf(InvalidJson)} \cup {PyStrOf(v) : v \in DecodedBodies}

\* bool(value)
PyTruthy(v) ==
    CASE v.kind \in {"absent", "None"} -> FALSE
      [] v.kind = "str" -> v # EmptyStr
      [] v.kind = "list" -> v.items # << >>
      [] v.kind = "dict" -> v # PyEmptyDict
      [] OTHER -> TRUE

\* bool(envelope.get("error"))
ErrorSet(env) == env.error \notin {"<absent>", "<null>", ""}

\* A dict the client builds to report a failure: {"error": ..., ...}.
ErrorDict(error, cause) ==
    [kind |-> "dict", error |-> error, result |-> PyAbsent, cause |-> cause]

\* Outcome of the remote call: an exception, or the value it returned.
ToolRaised(exc) == [raised |-> TRUE, exc |-> exc, value |-> PyNull]
ToolReturned(v) == [raised |-> FALSE, exc |-> "", value |-> v]

\* core.mcp_tools.mcp_tool_wrapper, given whether MCP_SERVER_URL is set and
\* the outcome of the POST: an httpx exception, or the response body.
mcp_tool_wrapper(url_set, post) ==
    IF ~url_set THEN ErrorDict("MCP_SERVER_URL not configured.", "")
    ELSE IF post.raised
    THEN CASE post.exc = "HTTPStatusError" ->
                  ErrorDict("HTTP error: status", "response text")
           [] post.exc = "RequestError" -> ErrorDict("Request error", "")
           [] OTHER -> ErrorDict("Unexpected error", post.exc)
    ELSE LET response_data == post.value.spells IN
         IF response_data.kind \in {"invalid", "empty"}
         THEN ErrorDict("Unexpected error", "JSONDecodeError")
         ELSE IF response_data.kind = "list" /\ Len(response_data.items) > 0
         THEN LET actual_response_dict == response_data.items[1] IN
              IF actual_response_dict.kind # "dict"
              THEN ErrorDict("Unexpected response format from MCP server", "")
              ELSE IF ErrorSet(actual_response_dict)
              THEN ErrorDict(actual_response_dict.error, "")
              ELSE IF actual_response_dict.result = PyAbsent
                   THEN ErrorDict("No result found", "")
                   ELSE actual_response_dict.result
         ELSE ErrorDict("Unexpected response format from MCP server", "")

\* agents.doc_agent.run_gradio_documentation_check, given the outcome of
\* client.predict.
run_gradio_documentation_check(predict) ==
    IF predict.raised
    THEN ErrorDict("Exception during Gradio documentation tool call", "")
    ELSE LET raw_json_string_output == predict.value IN
         IF ~PyTruthy(raw_json_string_output)
         THEN ErrorDict("Empty response from documentation tool", "")
         ELSE IF raw_json_string_output.kind # "str"
         THEN ErrorDict("Exception during Gradio documentation tool call", "TypeError")
         ELSE IF raw_json_string_output.spells = InvalidJson
         THEN ErrorDict("Failed to parse result from documentation tool", "")
         ELSE LET parsed_outer_list == raw_json_string_output.spells IN
              IF /\ parsed_outer_list.kind = "list"
                 /\ Len(parsed_outer_list.items) > 0
                 /\ parsed_outer_list.items[1].kind = "dict"
              THEN LET mcp_response_dict == parsed_outer_list.items[1]
                       actual_tool_result == mcp_response_dict.result
                   IN IF ErrorSet(mcp_response_dict)
                      THEN ErrorDict("Error from documentation tool",
                                     mcp_response_dict.error)
                      ELSE IF PyTruthy(actual_tool_result)
                      THEN actual_tool_result
                      ELSE ErrorDict("Malformed result from documentation tool", "")
              ELSE ErrorDict("Unexpected result structure from documentation tool", "")

\* agents.security_agent.run_gradio_security_check, given the outcome of
\* client.predict: a decoded string, a dict or a list is returned as it is.
run_gradio_security_check(predict) ==
    IF predict.raised
    THEN ErrorDict("Exception during Gradio security tool call", "")
    ELSE LET tool_result == predict.value IN
         IF tool_result.kind = "str"
         THEN IF tool_result.spells \in {InvalidJson, [kind |-> "empty"]}
              THEN ErrorDict("Failed to parse result from security tool", "")
              ELSE tool_result.spells
         ELSE IF tool_result.kind \in {"dict", "list"}
         THEN tool_result
         ELSE ErrorDict("Unexpected result type from security tool", "")

\* ------------------------------------------------------------ tool server

\* mcp_server.main.TOOL_REGISTRY: the names the executor can run.
TOOL_REGISTRY == {"bandit", "pydocstyle"}

\* ToolExecutionRequest: the fields the endpoint reads.
ToolExecutionRequest(session_id, tool_name) ==
    [session_id |-> session_id, tool_name |-> tool_name]

\* ToolExecutionResponse: result and error default to None.
ToolExecutionResponse(session_id, tool_name, tool_result, error) ==
    [session_id |-> session_id, tool_name |-> tool_name, result |-> tool_result,
     error |-> error]

\* A faulty variant of execute_tool that answers 200 whatever happened.
execute_tool_AlwaysOk(req, remote) ==
    [response |-> ToolExecutionResponse(req.session_id, req.tool_name,
                      IF remote.raised THEN PyNull ELSE remote.value.result,
                      "<null>"),
     status |-> 200,
     tool_run |-> TRUE]

\* mcp_server.main.execute_tool, given the request and the outcome of
\* tool_function.remote(...): an exception, or the pair (result, context).
\* tool_run tells whether the tool function was called.
execute_tool(req, remote) ==
    IF req.tool_name \notin TOOL_REGISTRY
    THEN [response |-> ToolExecutionResponse(req.session_id, req.tool_name, PyNull,
                                             "Tool not found in registry."),
          status |-> 404,
          tool_run |-> FALSE]
    ELSE IF remote.raised
    THEN [response |-> ToolExecutionResponse(req.session_id, req.tool_name, PyNull,
                                             "Error executing tool"),
          status |-> 500,
          tool_run |-> TRUE]
    ELSE [response |-> ToolExecutionResponse(req.session_id, req.tool_name,
                                             remote.value.result, "<null>"),
          status |-> 200,
          tool_run |-> TRUE]

\* ----------------------------------------------------------- orchestrator

\* Tool calls one analyze_code run may make.
MaxCalls == 2

\* The entry orchestrator.main.mcp_tool_wrapper appends for a successful
\* call.  raw_input is the code the call was made for, here the run's own.
ToolOutput(tool_name, r) ==
    [tool_name |-> tool_name, output |-> PyReport, raw_input |-> r]

\* The steps of the runs leave the workflow and the applied functions alone.
OrchFrame ==
    UNCHANGED << queues, tasks, ctxStore, heap, status, result, failure, request,
                 assessment, produced, triggers, recorded, arEmitted, llmCalls,
                 strays, call, ret >>

\* analyze_code, its first statement: global_tool_outputs.clear().
AnalyzeCodeClear ==
    /\ \E r \in Runs :
         /\ runs[r].pc = "idle"
         /\ runs' = [runs EXCEPT ![r].pc = "query"]
    /\ global_tool_outputs' = << >>
    /\ OrchFrame

\* A tool call the agent makes during self.agent.query(query):
\* mcp_tool_wrapper appends the output of a successful call to the list and
\* returns an error dict, appending nothing, for a failed one.
OrchestratorToolCall ==
    /\ \E r \in Runs, tool_name \in TOOL_REGISTRY, ok \in BOOLEAN :
         /\ runs[r].pc = "query"
         /\ Len(runs[r].made) < MaxCalls
         /\ IF ok
            THEN /\ global_tool_outputs' =
                        Append(global_tool_outputs, ToolOutput(tool_name, r))
                 /\ runs' = [runs EXCEPT ![r].made = Append(@, ToolOutput(tool_name, r))]
            ELSE /\ runs' = [runs EXCEPT ![r].made = Append(@, ErrorDict("HTTP error", ""))]
                 /\ UNCHANGED global_tool_outputs
    /\ OrchFrame

\* analyze_code after agent.query returned: the results take every entry of
\* global_tool_outputs.
AnalyzeCodeCollect ==
    /\ \E r \in Runs :
         /\ runs[r].pc = "query"
         /\ runs' = [runs EXCEPT ![r].pc = "done",
                                 ![r].results = [error |-> FALSE,
                                                 tool_outputs |-> global_tool_outputs]]
    /\ UNCHANGED global_tool_outputs
    /\ OrchFrame

\* analyze_code when agent.query raises: results = {"error": str(e)}.
AnalyzeCodeFails ==
    /\ \E r \in Runs :
         /\ runs[r].pc = "query"
         /\ runs' = [runs EXCEPT ![r].pc = "done",
                                 ![r].results = [error |-> TRUE, tool_outputs |-> << >>]]
    /\ UNCHANGED global_tool_outputs
    /\ OrchFrame

NextOrch ==
    \/ AnalyzeCodeClear
    \/ OrchestratorToolCall
    \/ AnalyzeCodeCollect
    \/ AnalyzeCodeFails

SpecOrch == InitStray /\ [][NextOrch]_vars

\* ------------------------------------------- functions applied on their own

\* Longest response text, in tokens.
MaxLen == 3

TextTokens ==
    {NotJson, Ws, Think, Tok("lbrace", "{"), Tok("badjson", "{oops}"),
     Tok("arr", "[1]")}
        \cup {Json(p) : p \in {"decision_doc", "decision_partial", "finding_agent",
                               "finding_nullissue", "finding_feedback_only", "empty"}}

RECURSIVE TextsOfLen(_)
TextsOfLen(n) ==
    IF n = 0 THEN {<< >>}
    ELSE {Append(t, tok) : t \in TextsOfLen(n - 1), tok \in TextTokens}

Texts == UNION {TextsOfLen(n) : n \in 0..MaxLen}

TextOutcomes == {Raised} \cup {Returned(t) : t \in Texts}

Queries == {Lit("def f(): pass"), << Ws >>}

PostOutcomes ==
    {ToolRaised(exc) : exc \in {"HTTPStatusError", "RequestError", "Exception"}}
        \cup {ToolReturned(v) : v \in ToolStrings}

PredictOutcomes ==
    {ToolRaised("Exception")}
        \cup {ToolReturned(v) : v \in ToolStrings \cup DecodedBodies}

\* Requests to the executor: registered and unregistered tool names.
ToolRequests ==
    {ToolExecutionRequest(s, t) :
        s \in {"session_001", "session_002"}, t \in TOOL_REGISTRY \cup {"flake8", ""}}

\* run_bandit_tool / run_pydocstyle_tool return (dict, context or {}); the
\* remote call itself may raise.
RemoteOutcomes ==
    {ToolRaised("Exception")}
        \cup {ToolReturned([result |-> r, context |-> PyEmptyDict]) :
                r \in {PyReport, ErrorDict("No code provided", "")}}

\* What workflow.run() may do for the code: time out, fail with the
\* exception that left a step, or return the WorkflowCompleteOutput that
\* final_aggregation_step built from some LLM response.
RunOutcomes(code_str) ==
    LET finals == {FinalAggregatedOutput(code_str, o) : o \in TextOutcomes} IN
    {RunRaised(WorkflowTimeoutError)}
        \cup {RunRaised(f.exc) : f \in {g \in finals : ~g.ok}}
        \cup {RunReturned(WorkflowCompleteOutput("r1", f.val, None, None)) :
                f \in {g \in finals : g.ok}}

\* What the agent call inside an analysis step may do: raise, or return the
\* findings the agent builds for some LLM outcome.
AgentResults(agent, code_string) ==
    {AgentRaised(Exc("RuntimeError", Lit("agent failed")))}
        \cup {AgentReturned(IF agent = "doc" THEN analyze_documentation(code_string, o)
                            ELSE analyze_security(code_string, o)) : o \in AgentOutcomes}

\* One function is applied once (call = None before), to one input.
Applied(fn, query, outcome, value) ==
    /\ call' = [fn |-> fn, query |-> query, outcome |-> outcome]
    /\ ret' = value
    /\ UNCHANGED << global_tool_outputs, runs, queues, tasks, ctxStore, heap, status, result, failure, request,
                    assessment, produced, triggers, recorded, arEmitted, llmCalls,
                    strays >>

ApplyParseAssessment ==
    /\ call = None
    /\ \E t \in Texts :
        Applied("ParseAssessment", << >>, Returned(t), ParseAssessment(t))

ApplyAnalyzeDocumentation ==
    /\ call = None
    /\ \E query \in Queries, outcome \in TextOutcomes :
        Applied("analyze_documentation", query, outcome,
                analyze_documentation(query, outcome))

ApplyAnalyzeSecurity ==
    /\ call = None
    /\ \E query \in Queries, outcome \in TextOutcomes :
        Applied("analyze_security", query, outcome, analyze_security(query, outcome))

ApplyFinalAggregatedOutput ==
    /\ call = None
    /\ \E query \in Queries, outcome \in TextOutcomes :
        Applied("final_aggregation_step", query, outcome,
                FinalAggregatedOutput(query, outcome))

ApplyAggregationOutput ==
    /\ call = None
    /\ \E outcome \in TextOutcomes :
        Applied("aggregation_step", << >>, outcome, AggregationOutput(outcome))

ApplyMcpToolWrapper ==
    /\ call = None
    /\ \E url_set \in BOOLEAN, post \in PostOutcomes :
        Applied("mcp_tool_wrapper", IF url_set THEN Lit("url") ELSE << >>, post,
                mcp_tool_wrapper(url_set, post))

ApplyRunGradioDocumentationCheck ==
    /\ call = None
    /\ \E predict \in PredictOutcomes :
        Applied("run_gradio_documentation_check", << >>, predict,
                run_gradio_documentation_check(predict))

ApplyRunGradioSecurityCheck ==
    /\ call = None
    /\ \E predict \in PredictOutcomes :
        Applied("run_gradio_security_check", << >>, predict,
                run_gradio_security_check(predict))

ApplyExecuteTool ==
    /\ call = None
    /\ \E req \in ToolRequests, remote \in RemoteOutcomes :
        Applied("execute_tool", req, remote, execute_tool(req, remote))

ApplyAnalyzeCodeLogic ==
    /\ call = None
    /\ \E code_str \in Queries \cup {<< >>} :
        \E run \in RunOutcomes(code_str) :
            Applied("analyze_code_logic", code_str, run, analyze_code_logic(code_str, run))

ApplyDocAnalysisStep ==
    /\ call = None
    /\ \E r \in RequestIds, code_string \in Queries :
        \E agent_result \in AgentResults("doc", code_string) :
            LET ev == DocAnalysisRequestTrigger(r, code_string) IN
            Applied("doc_analysis_step", ev, agent_result,
                    doc_analysis_event(ev, agent_result))

ApplySecurityAnalysisStep ==
    /\ call = None
    /\ \E r \in RequestIds, code_string \in Queries :
        \E agent_result \in AgentResults("sec", code_string) :
            LET ev == SecurityAnalysisRequestTrigger(r, code_string) IN
            Applied("security_analysis_step", ev, agent_result,
                    security_analysis_event(ev, agent_result))

NextFn ==
    \/ ApplyParseAssessment
    \/ ApplyAnalyzeDocumentation
    \/ ApplyAnalyzeSecurity
    \/ ApplyFinalAggregatedOutput
    \/ ApplyAggregationOutput
    \/ ApplyMcpToolWrapper
    \/ ApplyRunGradioDocumentationCheck
    \/ ApplyRunGradioSecurityCheck
    \/ ApplyExecuteTool
    \/ ApplyAnalyzeCodeLogic
    \/ ApplyDocAnalysisStep
    \/ ApplySecurityAnalysisStep

SpecFn == InitStray /\ [][NextFn]_vars

\* ----------------------------------------------------------------- claims

Invoked(doc, sec) ==
    /\ assessment # None
    /\ assessment.invoke_doc_agent = doc
    /\ assessment.invoke_security_agent = sec

Range(seq) == {seq[i] : i \in DOMAIN seq}

\* The AggregationReadyEvent that the request's data determine.
ExpectedReady(doc_findings, security_findings) ==
    AggregationReadyEvent(request.request_id, request.code, assessment,
                          doc_findings, security_findings)

\* C1: with both agents invoked, exactly one AggregationReadyEvent is emitted
\* for the request and the run reaches Complete exactly once: never a second
\* AggregationReadyEvent, never a run that ends without Complete.
C1_ExactlyOneAggregation ==
    Invoked(TRUE, TRUE) =>
        /\ Len(arEmitted) <= 1
        /\ status # "failed"
        /\ (status = "done" => Len(arEmitted) = 1)

\* C2: with both agents invoked, every AggregationReadyEvent is emitted with
\* no slot of the request's state (and of the event) holding EXPECTED, and
\* after both completion events have been recorded.
C2_NoReadyWhileExpected ==
    Invoked(TRUE, TRUE) /\ arEmitted # << >> =>
        /\ \A i \in DOMAIN arEmitted :
             /\ arEmitted[i].by = "collector_step"
             /\ arEmitted[i].ev.doc_findings # EXPECTED
             /\ arEmitted[i].ev.security_findings # EXPECTED
        /\ heap[request.request_id].doc_findings # EXPECTED
        /\ heap[request.request_id].security_findings # EXPECTED
        /\ Range(recorded) = {"DocAnalysisCompleteEvent", "SecurityAnalysisCompleteEvent"}

C2_Witness ==
    /\ Invoked(TRUE, TRUE)
    /\ arEmitted # << >>
    /\ recorded[1] = "DocAnalysisCompleteEvent"

\* C3: with both agents invoked, the AggregationReadyEvent carries the
\* request's id, code and assessment and the two agents' findings, whichever
\* completion event the collector recorded first.
C3_CollectorCommutes ==
    Invoked(TRUE, TRUE) =>
        \A i \in DOMAIN arEmitted :
            arEmitted[i].ev = ExpectedReady(produced.doc, produced.sec)

C3_Witness ==
    /\ Invoked(TRUE, TRUE)
    /\ arEmitted # << >>
    /\ recorded[1] = "SecurityAnalysisCompleteEvent"
    /\ produced.doc # produced.sec

\* C4: with exactly one agent invoked, the AggregationReadyEvent is emitted
\* once the collector has handled that agent's completion event (one event,
\* no other), and it carries None for the agent that was not invoked.
C4_SingleAgent ==
    /\ Invoked(TRUE, FALSE) =>
         /\ Len(recorded) <= 1
         /\ (arEmitted # << >> => recorded = << "DocAnalysisCompleteEvent" >>)
         /\ (recorded # << >> /\ InFlight("collector_step") = 0
                => arEmitted = << [by |-> "collector_step",
                                   ev |-> ExpectedReady(produced.doc, None)] >>)
    /\ Invoked(FALSE, TRUE) =>
         /\ Len(recorded) <= 1
         /\ (arEmitted # << >> => recorded = << "SecurityAnalysisCompleteEvent" >>)
         /\ (recorded # << >> /\ InFlight("collector_step") = 0
                => arEmitted = << [by |-> "collector_step",
                                   ev |-> ExpectedReady(None, produced.sec)] >>)

C4_Witness ==
    /\ Invoked(TRUE, FALSE)
    /\ recorded = << "DocAnalysisCompleteEvent" >>
    /\ Len(arEmitted) = 1
    /\ arEmitted[1].ev.security_findings = None

\* C5: with no agent invoked, the dispatch step itself emits the
\* AggregationReadyEvent with both findings None; no trigger is sent and no
\* workflow state is stored for the request.
C5_NoAgentInvoked ==
    Invoked(FALSE, FALSE) =>
        /\ triggers = {}
        /\ queues["doc_analysis_step"] = << >>
        /\ queues["security_analysis_step"] = << >>
        /\ recorded = << >>
        /\ heap[request.request_id] = None
        /\ ctxStore[request.request_id] # "ref"
        /\ (queues["dispatch_agencies_step"] = << >>
              => arEmitted = << [by |-> "dispatch_agencies_step",
                                 ev |-> ExpectedReady(None, None)] >>)

C5_Witness ==
    /\ Invoked(FALSE, FALSE)
    /\ llmCalls["initial_assessment_step"] = 1
    /\ Len(arEmitted) = 1
    /\ status = "done"

\* C6: a completion event that the collector takes for a request id with no
\* stored state is a no-op: nothing is raised, no AggregationReadyEvent is
\* emitted, no event is sent, and the context store is left as it was.
C6_DiscardIsNoOp ==
    [][LET q == queues["collector_step"] IN
         (/\ q # << >>
          /\ queues'["collector_step"] = Tail(q)
          /\ ctxStore[Head(q).request_id] # "ref")
         => /\ UNCHANGED << ctxStore, heap, arEmitted, recorded, tasks,
                            status, failure, result >>
            /\ \A step \in DOMAIN queues \ {"collector_step"} :
                 queues'[step] = queues[step]]_vars

C6_Witness ==
    /\ request.request_id # NoRid
    /\ strays = 1
    /\ status = "running"
    /\ queues["collector_step"] = << >>
    /\ InFlight("collector_step") = 0
    /\ ctxStore[request.request_id] = "None"
    /\ Len(recorded) = 1
    /\ Len(arEmitted) = 1

\* C7: a completion event that the collector takes after it has fired the
\* AggregationReadyEvent of the same request finds no state and is discarded:
\* it is not recorded and no second AggregationReadyEvent follows from it.
C7_LateEventDiscarded ==
    [][LET q == queues["collector_step"] IN
         (/\ q # << >>
          /\ queues'["collector_step"] = Tail(q)
          /\ \E i \in DOMAIN arEmitted :
                /\ arEmitted[i].by = "collector_step"
                /\ arEmitted[i].ev.request_id = Head(q).request_id)
         => UNCHANGED << ctxStore, heap, recorded, tasks, arEmitted >>]_vars

\* C8: one AggregationReadyEvent leads to one aggregation LLM call: the
\* aggregation steps together start at most as many LLM calls as there are
\* AggregationReadyEvents.
C8_OneAggregationCall ==
    llmCalls["aggregation_step"] + llmCalls["final_aggregation_step"]
        <= Len(arEmitted)

\* C9: no workflow step propagates an exception, and a run that has ended
\* returned a WorkflowCompleteOutput whose final_aggregated_output is an
\* OutputSchema.
C9_AlwaysAFindingRecord ==
    /\ status # "failed"
    /\ status = "done" =>
         /\ result # None
         /\ result.final_aggregated_output.tag = "OutputSchema"

\* C10: the aggregation stage does not raise, whatever the aggregation LLM
\* call returns or raises.
C10_AggregationNeverRaises ==
    failure # None =>
        failure.step \notin {"aggregation_step", "final_aggregation_step"}

\* C11: no update of the collector is lost.  With both agents invoked, the
\* slot of every completion event the collector has recorded holds that
\* event's findings from then on, however the two workers interleave; once
\* both are recorded neither slot is EXPECTED.
C11_NoLostUpdate ==
    Invoked(TRUE, TRUE) =>
        LET workflow_state == heap[request.request_id] IN
        /\ "DocAnalysisCompleteEvent" \in Range(recorded)
             => workflow_state.doc_findings = produced.doc
        /\ "SecurityAnalysisCompleteEvent" \in Range(recorded)
             => workflow_state.security_findings = produced.sec
        /\ Len(recorded) = 2 => AllDone(workflow_state)

\* Both workers were between ctx.get and ctx.set at the same time.
C11_Witness ==
    /\ Invoked(TRUE, TRUE)
    /\ Len(recorded) = 2
    /\ InFlight("collector_step") = 2

\* A handler took an event of the request from its queue, or a suspended
\* handler of one of the request's events resumed.
Handled(request_id) ==
    \/ \E step \in DOMAIN queues :
         /\ queues[step] # << >>
         /\ Head(queues[step]).type # "StopEvent"
         /\ Head(queues[step]).request_id = request_id
         /\ queues'[step] = Tail(queues[step])
    \/ \E t \in BagToSet(tasks) :
         /\ t.ev.request_id = request_id
         /\ CopiesIn(t, tasks') < CopiesIn(t, tasks)

\* What belongs to each of the two requests.
CodeOf(request_id) == IF request_id = NewUuid THEN OtherCode ELSE request.code

AssessmentsOf(request_id) ==
    IF request_id = NewUuid THEN OtherDecisions ELSE {assessment}

OwnFindings(findings, request_id) ==
    findings = None \/ findings.code = CodeOf(request_id)

OwnReady(ev) ==
    /\ ev.code_string = CodeOf(ev.request_id)
    /\ ev.assessment \in AssessmentsOf(ev.request_id)
    /\ OwnFindings(ev.doc_findings, ev.request_id)
    /\ OwnFindings(ev.security_findings, ev.request_id)

OwnOutput(r) ==
    /\ OwnFindings(r.doc_agent_output, r.request_id)
    /\ OwnFindings(r.security_agent_output, r.request_id)

\* C12: requests are isolated.  A step that handles an event of one request
\* leaves the stored state of every other request unchanged, and every
\* AggregationReadyEvent and WorkflowCompleteOutput of a request carries that
\* request's code string, assessment and findings only.
C12_RequestsIsolated ==
    /\ [][\A a, b \in RequestIds :
            a # b /\ Handled(a)
            => heap'[b] = heap[b] /\ ctxStore'[b] = ctxStore[b]]_vars
    /\ [](/\ \A i \in DOMAIN arEmitted : OwnReady(arEmitted[i].ev)
          /\ \A i \in DOMAIN queues["_done"] : OwnOutput(queues["_done"][i].result)
          /\ result # None => OwnOutput(result))

\* Both requests have stored state and the collector has emitted the
\* AggregationReadyEvent of each.
C12_Witness ==
    /\ Len(arEmitted) >= 2
    /\ {arEmitted[i].ev.request_id : i \in DOMAIN arEmitted} = RequestIds
    /\ \A i \in DOMAIN arEmitted : arEmitted[i].by = "collector_step"

\* C13: for empty or whitespace-only code the assessment stage makes no LLM
\* call and returns the decision {minimum, false, false, "Input code was
\* empty."}.
C13_EmptyCodeShortCircuit ==
    (\A i \in DOMAIN request.code : request.code[i].k = "ws") =>
        /\ llmCalls["initial_assessment_step"] = 0
        /\ assessment # None =>
             assessment = [analysis_depth |-> Lit("minimum"),
                           invoke_doc_agent |-> FALSE,
                           invoke_security_agent |-> FALSE,
                           reasoning |-> Lit("Input code was empty.")]

C13_Witness ==
    /\ request.code = << Ws >>
    /\ assessment # None
    /\ queues["initial_assessment_step"] = << >>

\* C14: for empty or whitespace-only code, a run that reaches Complete
\* returns a final record whose issue indicates an input error, whatever the
\* LLM returned.
C14_EmptyCodeInputError ==
    (status = "done" /\ \A i \in DOMAIN request.code : request.code[i].k = "ws") =>
        /\ result.final_aggregated_output.tag = "OutputSchema"
        /\ result.final_aggregated_output.issue = Lit("Orchestrator Input Error")

\* needle occurs in hay as a contiguous piece.
Contains(hay, needle) ==
    \E i \in 1..(Len(hay) + 1) :
        /\ i + Len(needle) - 1 <= Len(hay)
        /\ SubSeq(hay, i, i + Len(needle) - 1) = needle

CompleteDecisions == {"decision_both", "decision_doc", "decision_sec", "decision_none"}

\* The response holds no JSON object with all the keys of a decision.
NoDecisionIn(text) ==
    \A i \in DOMAIN text : ~(text[i].k = "json" /\ text[i].p \in CompleteDecisions)

\* C15: an assessment response from which no decision can be decoded makes
\* the assessment stage fail open: depth "standard", both agents invoked,
\* and a reasoning that contains the raw response text.
C15_FailOpenKeepsRawText ==
    (call # None /\ call.fn = "ParseAssessment" /\ NoDecisionIn(call.outcome.text)) =>
        /\ ret.analysis_depth = Lit("standard")
        /\ ret.invoke_doc_agent
        /\ ret.invoke_security_agent
        /\ Contains(ret.reasoning, call.outcome.text)

AgentFns == {"analyze_documentation", "analyze_security"}

ExecutionErrorTag(fn) ==
    IF fn = "analyze_documentation" THEN Lit("Agent Execution Error")
    ELSE Lit("SecurityAgent Execution Error")

\* The decoded response makes the construction of the record raise: it is
\* no dict, or a field that must be a string is null.
BreaksRecord(v) ==
    \/ v.kind = "list"
    \/ /\ v.kind = "dict"
       /\ v.obj # EmptyObj
       /\ \E key \in {"issue", "reason", "feedback"} : v.obj[key] = NullV

\* C16: the agents never propagate an exception.  They always return an
\* OutputSchema; when the agent query raises, or the record cannot be built
\* from the decoded response, it is the Execution Error record with the
\* exception message in feedback and fixed_code equal to the input.
C16_AgentsNeverRaise ==
    (call # None /\ call.fn \in AgentFns) =>
        /\ ret.tag = "OutputSchema"
        /\ ret.code = call.query
        /\ call.outcome.raised =>
             /\ ret.issue = ExecutionErrorTag(call.fn)
             /\ Contains(ret.feedback, LLMError.msg)
             /\ ret.fixed_code = call.query
        /\ (~call.outcome.raised
              /\ BreaksRecord(parse_thinking_outputs(call.outcome.text))) =>
             /\ ret.issue = ExecutionErrorTag(call.fn)
             /\ ret.fixed_code = call.query

C16_Witness ==
    /\ call # None
    /\ call.fn = "analyze_documentation"
    /\ call.outcome.raised
    /\ ret.issue = Lit("Agent Execution Error")

\* C17: an agent whose response does not decode as JSON returns the record
\* with issue "Agent Response Error", fixed_code equal to the input code and
\* the raw response in feedback.
C17_AgentResponseError ==
    (/\ call # None
     /\ call.fn \in AgentFns
     /\ ~call.outcome.raised
     /\ parse_thinking_outputs(call.outcome.text) = PyNone) =>
        /\ ret.issue = Lit("Agent Response Error")
        /\ ret.fixed_code = call.query
        /\ ret.code = call.query
        /\ Contains(ret.feedback, call.outcome.text)

C17_Witness ==
    /\ call # None
    /\ call.fn = "analyze_security"
    /\ call.outcome = Returned(<< Tok("txt", "not json"), Tok("badjson", "{oops}") >>)
    /\ ret.issue = Lit("Agent Response Error")

\* issue, reason and feedback of a record are strings, none of them null.
FieldsPresent(r) ==
    \A field \in {"issue", "reason", "feedback"} :
        IsStr(r[field]) /\ r[field] \notin {NullV, AbsentV}

\* The decoded response is a JSON object that lacks the key and whose other
\* fields let the record be built.
LacksOnly(v, key) ==
    /\ v.kind = "dict"
    /\ v.obj[key] = AbsentV
    /\ \A other \in {"issue", "reason", "feedback"} \ {key} :
         v.obj[other] = AbsentV \/ IsStr(v.obj[other])

ToolFns ==
    {"mcp_tool_wrapper", "run_gradio_documentation_check", "run_gradio_security_check"}

\* The value the tool answered with, decoded when it came as a string.
BodyOf(outcome) ==
    IF outcome.value.kind = "str" THEN outcome.value.spells ELSE outcome.value

\* The body is [envelope] or [envelope, status_code].
IsEnveloped(body) ==
    /\ body.kind = "list"
    /\ Len(body.items) > 0
    /\ body.items[1].kind = "dict"

\* The call failed: no URL, an exception, a body that is no JSON or no
\* enveloped list, or an envelope with neither error nor result.
ToolFailure ==
    \/ call.fn = "mcp_tool_wrapper" /\ call.query = << >>
    \/ call.outcome.raised
    \/ ~IsEnveloped(BodyOf(call.outcome))
    \/ LET env == BodyOf(call.outcome).items[1] IN
         ~ErrorSet(env) /\ env.result = PyAbsent

HasErrorKey(v) == v.kind = "dict" /\ v.error # "<absent>"

\* C19: the tool client returns a dict with an error key for every failure.
C19_ToolFailureIsErrorDict ==
    (call # None /\ call.fn \in ToolFns /\ ToolFailure) => HasErrorKey(ret)

\* C20: the tool client unwraps the envelope.  A set error field makes it
\* return an error dict that carries that error, not the result; with the
\* error field absent or empty it returns the envelope's result.
C20_EnvelopeUnwrapped ==
    (/\ call # None
     /\ call.fn \in ToolFns
     /\ call.fn = "mcp_tool_wrapper" => call.query # << >>
     /\ ~call.outcome.raised
     /\ call.fn # "run_gradio_security_check" => call.outcome.value.kind = "str"
     /\ IsEnveloped(BodyOf(call.outcome))) =>
        LET env == BodyOf(call.outcome).items[1] IN
        /\ ErrorSet(env) =>
             /\ HasErrorKey(ret)
             /\ env.error \in {ret.error, ret.cause}
        /\ (~ErrorSet(env) /\ PyTruthy(env.result)) => ret = env.result

\* C21: execute_tool answers every request with a response and a status.
\* An unregistered tool_name gives 404 with an error, no result and no tool
\* run; a tool that raises gives 500 with an error and no result; otherwise
\* 200 with error null and the tool's result.  The response echoes the
\* request's session_id and tool_name.
C21_ExecutorEnvelope ==
    (call # None /\ call.fn = "execute_tool") =>
        LET req == call.query
            registered == req.tool_name \in {"bandit", "pydocstyle"}
        IN
        /\ ret.response.session_id = req.session_id
        /\ ret.response.tool_name = req.tool_name
        /\ ~registered =>
             /\ ret.status = 404
             /\ ret.response.error # "<null>"
             /\ ret.response.result = PyNull
             /\ ~ret.tool_run
        /\ (registered /\ call.outcome.raised) =>
             /\ ret.status = 500
             /\ ret.response.error # "<null>"
             /\ ret.response.result = PyNull
        /\ (registered /\ ~call.outcome.raised) =>
             /\ ret.status = 200
             /\ ret.response.error = "<null>"
             /\ ret.response.result = call.outcome.value.result

C21_Witness ==
    /\ call # None
    /\ call.fn = "execute_tool"
    /\ call.query.tool_name = "bandit"
    /\ call.outcome.raised
    /\ ret.status = 500

\* C22: a run that does not complete does not go on forever: the timeout
\* ends it with a timeout error.  Every run ends, done or failed.
C22_TimeoutEndsRun ==
    <>(status \in {"done", "failed"})

\* The dict has the fields of a finding record that tell what happened.
FindingShaped(d) == {"issue", "feedback", "reason"} \subseteq DOMAIN d

\* C23: analyze_code_logic never raises and, whatever the run did (success,
\* step exception, timeout, empty input), returns a result with issue,
\* feedback and reason fields.
C23_CallerGetsFindingShape ==
    (call # None /\ call.fn = "analyze_code_logic") =>
        /\ ~ret.raised
        /\ FindingShaped(ret.value)

\* C24: in every AggregationReadyEvent emitted, and in the run's result, the
\* findings of an agent whose invoke flag was false are null, whatever
\* completion events reached the collector.
C24_NotInvokedStaysNull ==
    /\ \A i \in DOMAIN arEmitted :
         LET ev == arEmitted[i].ev IN
         /\ ~ev.assessment.invoke_doc_agent => ev.doc_findings = None
         /\ ~ev.assessment.invoke_security_agent => ev.security_findings = None
    /\ (status = "done" /\ assessment # None) =>
         /\ ~assessment.invoke_doc_agent => result.doc_agent_output = None
         /\ ~assessment.invoke_security_agent => result.security_agent_output = None

\* The slot the dispatcher gives an agent: EXPECTED when invoked, else null.
InitialSlot(invoked) == IF invoked THEN EXPECTED ELSE None

\* C25: the dispatcher stores the request's state before it sends a
\* trigger.  When a trigger is sent the state exists, with EXPECTED for each
\* invoked agent and null for each agent not invoked, and a trigger goes to
\* the invoked agents only; an event the collector takes finds the state.
C25_PersistBeforeFanOut ==
    [][/\ triggers' # triggers =>
            LET rid == request.request_id IN
            /\ ctxStore[rid] = "ref"
            /\ heap[rid].doc_findings = InitialSlot(assessment.invoke_doc_agent)
            /\ heap[rid].security_findings = InitialSlot(assessment.invoke_security_agent)
            /\ ("doc" \in triggers') = assessment.invoke_doc_agent
            /\ ("sec" \in triggers') = assessment.invoke_security_agent
       /\ Len(queues'["collector_step"]) < Len(queues["collector_step"]) =>
            ctxStore[Head(queues["collector_step"]).request_id] = "ref"]_vars

C25_Witness ==
    /\ triggers = {"sec"}
    /\ Len(recorded) = 1
    /\ heap[request.request_id].doc_findings = None

\* C26: an analysis step answers a trigger with one completion event of its
\* own type, tagged with the trigger's request identifier.  The event
\* carries the agent's findings when the agent call returned and null
\* findings when it raised, never the EXPECTED sentinel.
C26_OneCompletionPerTrigger ==
    /\ (call # None /\ call.fn = "doc_analysis_step") =>
         /\ ret.type = "DocAnalysisCompleteEvent"
         /\ ret.request_id = call.query.request_id
         /\ ret.doc_findings # EXPECTED
         /\ ret.doc_findings = (IF call.outcome.raised THEN None ELSE call.outcome.value)
    /\ (call # None /\ call.fn = "security_analysis_step") =>
         /\ ret.type = "SecurityAnalysisCompleteEvent"
         /\ ret.request_id = call.query.request_id
         /\ ret.security_findings # EXPECTED
         /\ ret.security_findings =
                (IF call.outcome.raised THEN None ELSE call.outcome.value)

C26_Witness ==
    /\ call # None
    /\ call.fn = "security_analysis_step"
    /\ call.outcome.raised
    /\ ret.security_findings = None
    /\ ret.request_id = "u1"

\* C27: handling one completion event, the collector writes the event's
\* findings to the slot of the event's type in the state of the event's
\* request, and changes nothing else: not the other slot, the assessment or
\* the code_string, and no other request's state.  The write happens when
\* the event is taken; re-persisting the state changes no slot.
C27_CollectorWritesOneSlot ==
    [][LET q == queues["collector_step"] IN
         /\ (q # << >> /\ queues'["collector_step"] = Tail(q)) =>
              LET ev == Head(q)
                  rid == ev.request_id
              IN /\ \A r \in RequestIds \ {rid} : heap'[r] = heap[r]
                 /\ ctxStore[rid] = "ref" =>
                      /\ heap'[rid].assessment = heap[rid].assessment
                      /\ heap'[rid].code_string = heap[rid].code_string
                      /\ ev.type = "DocAnalysisCompleteEvent" =>
                           /\ heap'[rid].doc_findings = ev.doc_findings
                           /\ heap'[rid].security_findings = heap[rid].security_findings
                      /\ ev.type = "SecurityAnalysisCompleteEvent" =>
                           /\ heap'[rid].security_findings = ev.security_findings
                           /\ heap'[rid].doc_findings = heap[rid].doc_findings
         /\ InFlight("collector_step")' < InFlight("collector_step") => heap' = heap]_vars

C27_Witness ==
    /\ heap["r1"] # None
    /\ heap["u1"] # None
    /\ Len(recorded) = 1
    /\ heap["r1"].doc_findings \notin {EXPECTED, None}
    /\ heap["r1"].security_findings = None
    /\ heap["u1"].doc_findings = EXPECTED
    /\ heap["u1"].security_findings = EXPECTED

\* Events of the run in the queues of the steps, with a request identifier.
QueuedEvents ==
    UNION {Range(queues[s]) : s \in Steps \ {"start_analysis", "_done"}}

\* C28: the request identifier is settled by start_analysis, the supplied
\* one when the caller gave one and a generated one otherwise, and does not
\* change afterwards: every event of the run, every handler's event, every
\* AggregationReadyEvent and the final output carry it.
C28_RequestIdFixed ==
    /\ [](/\ \A ev \in QueuedEvents : ev.request_id = request.request_id
          /\ \A t \in BagToSet(tasks) : t.ev.request_id = request.request_id
          /\ \A i \in DOMAIN arEmitted : arEmitted[i].ev.request_id = request.request_id
          /\ \A ev \in Range(queues["_done"]) :
                ev.result.request_id = request.request_id
          /\ status = "done" => result.request_id = request.request_id)
    /\ [][request'.request_id # request.request_id =>
            LET supplied == Head(queues["start_analysis"]).request_id IN
            /\ request.request_id = NoRid
            /\ request'.request_id =
                  (IF supplied \in {NoRid, ""} THEN NewUuid ELSE supplied)]_vars

C28_Witness ==
    /\ status = "done"
    /\ result.request_id = "r1"
    /\ Len(arEmitted) = 1
    /\ Len(recorded) = 2

\* The recorded tool outputs among the calls a run made.
SelectOutputs(made) == SelectSeq(made, LAMBDA e : "tool_name" \in DOMAIN e)

\* C29: the tool outputs a run reports are exactly the outputs of the tool
\* calls that run made, whatever other runs do meanwhile.
C29_ToolOutputsOwnRun ==
    \A r \in Runs :
        (runs[r].pc = "done" /\ ~runs[r].results.error) =>
            runs[r].results.tool_outputs = SelectOutputs(runs[r].made)

\* C30: the final output passes the collected data through: its agent
\* outputs are the findings of an AggregationReadyEvent that was emitted, and
\* the code of its final_aggregated_output is the code of the request,
\* whatever the aggregation LLM returned.
C30_OutputPassesThrough ==
    status = "done" =>
        /\ \E i \in DOMAIN arEmitted :
             /\ result.doc_agent_output = arEmitted[i].ev.doc_findings
             /\ result.security_agent_output = arEmitted[i].ev.security_findings
        /\ result.final_aggregated_output.code = request.code

====
